---- MODULE Spec2Model ----
(***************************************************************************)
(* The certificate dashboard (app/dashboard/page.tsx): the React state of  *)
(* the Dashboard component, the persisted mirror kept in localStorage, the *)
(* ledger behind certificateService, and the asynchronous handlers         *)
(* (initBlockchain, fetchCertificates, handleFileUpload,                   *)
(* handleRegisterOrganization, handleIssueCertificate), each cut at its    *)
(* await points.  A handler is a closure: it reads the state values of the *)
(* render it was created in, so every asynchronous handler carries the     *)
(* values it captured when it was invoked.                                 *)
(***************************************************************************)
EXTENDS Integers, Sequences, FiniteSets, TLC

VARIABLES
    certificates,   \* useState<Certificate[]>: the cached certificate set
    localStorage,   \* the list stored under the "certificates" key
    isConnected,    \* useState(false)
    isIssuing,      \* useState(false)
    isNFT,          \* useState(false)
    isRegistered,   \* useState(false)
    uploadState,    \* useState({isUploading, documentHash, metadataHash, documentUrl})
    formData,       \* useState({recipientName, ...})
    sub,            \* the invocations of handleIssueCertificate, one per slot
    fetch,          \* the invocation of fetchCertificates
    boot,           \* the position of initBlockchain (the mount effect)
    upload,         \* the invocation of handleFileUpload
    registering,    \* handleRegisterOrganization awaits registerOrganization
    ledger,         \* the certificates the two contracts hold
    last,           \* history: the submission that finished in the step just taken,
                    \* if one did
    toasts,         \* the notifications that initBlockchain, fetchCertificates and
                    \* handleIssueCertificate raised in the step just taken
    scans           \* history: how many times fetchCertificates has completed since
                    \* the last certificate was issued (counted up to MaxScans)

vars == <<certificates, localStorage, isConnected, isIssuing, isNFT, isRegistered,
          uploadState, formData, sub, fetch, boot, upload, registering, ledger, last,
          toasts, scans>>

----------------------------------------------------------------------------
(* Bounds of the model *)

\* handleIssueCertificate invocations that can be suspended at the same time
MaxInFlight == 2

\* certificates the two contracts hold before they only fail
MaxLedger == 2

\* fields of the form that differ from the filled-in form
MaxDeviations == 1

\* the count of completed fetches stops here
MaxScans == 2

----------------------------------------------------------------------------
(* Values *)

MaxNameLength == 100

LongName ==
    "aaaaaaaaaaaaaaaaaaaaaaaaaaaaaaaaaaaaaaaaaaaaaaaaaaaaaaaaaaaaaaaaaaaaaaaaaaaaaaaaaaaaaaaaaaaaaaaaaaaaa"

\* a recipient name of exactly 100 characters
Name100 ==
    "aaaaaaaaaaaaaaaaaaaaaaaaaaaaaaaaaaaaaaaaaaaaaaaaaaaaaaaaaaaaaaaaaaaaaaaaaaaaaaaaaaaaaaaaaaaaaaaaaaaa"

ZeroAddress == "0x0000000000000000000000000000000000000000"

RecipientA == "0x1111111111111111111111111111111111111111"

\* the strings ethers.isAddress accepts, among the ones the model types in
WellFormedAddresses == {ZeroAddress, RecipientA}

isAddress(a) == a \in WellFormedAddresses

\* new Date(s).getTime(): the day number of a date string, NaN for the rest
NaN == -1

DateStrings == {"2025-01-01", "2025-01-02", "2025-01-03"}

getTime(s) ==
    CASE s = "2025-01-01" -> 20089
      [] s = "2025-01-02" -> 20090
      [] s = "2025-01-03" -> 20091
      [] OTHER -> NaN

isNaN(t) == t = NaN

Fields == {"recipientName", "recipientAddress", "certificateType", "issueDate",
           "expirationDate", "additionalDetails", "institutionName", "logoUrl",
           "brandColor"}

InitialFormData ==
    [recipientName |-> "", recipientAddress |-> "", certificateType |-> "",
     issueDate |-> "", expirationDate |-> "", additionalDetails |-> "",
     institutionName |-> "", logoUrl |-> "", brandColor |-> "#FFFFFF"]

InitialUploadState ==
    [isUploading |-> FALSE, documentHash |-> "", metadataHash |-> "", documentUrl |-> ""]

\* what the user types into each field
FieldValues ==
    [recipientName |-> {"", "Ann", LongName},
     recipientAddress |-> {"", "0x123", ZeroAddress, RecipientA},
     certificateType |-> {"", "BSc"},
     issueDate |-> {"", "2025-01-02"},
     expirationDate |-> {"", "2025-01-01", "2025-01-03", "soon"},
     additionalDetails |-> {""},
     institutionName |-> {"", "AvaU"},
     logoUrl |-> {"", "https://logo"},
     brandColor |-> {"#FFFFFF"}]

\* the form filled in for a standard certificate
FilledForm ==
    [recipientName |-> "Ann", recipientAddress |-> RecipientA, certificateType |-> "BSc",
     issueDate |-> "2025-01-02", expirationDate |-> "", additionalDetails |-> "",
     institutionName |-> "AvaU", logoUrl |-> "", brandColor |-> "#FFFFFF"]

\* the mandatory inputs in the order the form shows them
FillOrder == <<"recipientName", "recipientAddress", "certificateType", "issueDate",
               "institutionName">>

PartlyFilled(k) ==
    [f \in Fields |->
        IF \E j \in 1..k : FillOrder[j] = f THEN FilledForm[f] ELSE InitialFormData[f]]

\* the forms passed through while the blank form is filled in, and the
\* filled form with the logo of the organization typed in
InScope(form) ==
    \/ \E k \in 0..Len(FillOrder) : form = PartlyFilled(k)
    \/ form = [FilledForm EXCEPT !.logoUrl = "https://logo"]

\* those, and the filled form with up to MaxDeviations fields changed
InWideScope(form) ==
    \/ InScope(form)
    \/ Cardinality({f \in Fields : form[f] # FilledForm[f]}) <= MaxDeviations

----------------------------------------------------------------------------
(* The pure form validator and the checks of a submission *)

\* the verdict with an expiration date equal to the issue date let through
isFormValidNonStrict(form, upl, nft, registered) ==
    IF \/ form.recipientName = "" \/ form.recipientAddress = ""
       \/ form.certificateType = "" \/ form.issueDate = "" \/ form.institutionName = ""
    THEN FALSE
    ELSE IF Len(form.recipientName) > MaxNameLength THEN FALSE
    ELSE IF ~isAddress(form.recipientAddress) THEN FALSE
    ELSE IF upl.isUploading THEN FALSE
    ELSE IF /\ form.expirationDate # ""
            /\ \/ isNaN(getTime(form.issueDate))
               \/ isNaN(getTime(form.expirationDate))
               \/ getTime(form.expirationDate) < getTime(form.issueDate)
    THEN FALSE
    ELSE IF nft /\ ~registered THEN FALSE
    ELSE IF nft /\ (form.logoUrl = "" \/ form.brandColor = "") THEN FALSE
    ELSE TRUE

\* isFormValid(): the verdict the submit control reads
isFormValid(form, upl, nft, registered) ==
    IF \/ form.recipientName = "" \/ form.recipientAddress = ""
       \/ form.certificateType = "" \/ form.issueDate = "" \/ form.institutionName = ""
    THEN FALSE
    ELSE IF Len(form.recipientName) > MaxNameLength THEN FALSE
    ELSE IF ~isAddress(form.recipientAddress) THEN FALSE
    ELSE IF upl.isUploading THEN FALSE
    ELSE IF /\ form.expirationDate # ""
            /\ \/ isNaN(getTime(form.issueDate))
               \/ isNaN(getTime(form.expirationDate))
               \/ getTime(form.expirationDate) <= getTime(form.issueDate)
    THEN FALSE
    ELSE IF nft /\ ~registered THEN FALSE
    ELSE IF nft /\ (form.logoUrl = "" \/ form.brandColor = "") THEN FALSE
    ELSE TRUE

\* disabled={isIssuing || !isConnected || !isFormValid()} of the submit button
SubmitEnabled ==
    ~isIssuing /\ isConnected /\ isFormValid(formData, uploadState, isNFT, isRegistered)

\* the checks without the one of the length of the recipient name
SubmissionFaultNoLength(form, nft, registered) ==
    IF \/ form.recipientName = "" \/ form.recipientAddress = ""
       \/ form.certificateType = "" \/ form.issueDate = "" \/ form.institutionName = ""
    THEN "Missing required fields"
    ELSE IF ~isAddress(form.recipientAddress) THEN "Invalid recipient address"
    ELSE IF nft /\ ~registered THEN "Organization not registered. Please register first."
    ELSE ""

\* the checks without the one of the registration of the organization
SubmissionFaultNoRegistration(form, nft, registered) ==
    IF \/ form.recipientName = "" \/ form.recipientAddress = ""
       \/ form.certificateType = "" \/ form.issueDate = "" \/ form.institutionName = ""
    THEN "Missing required fields"
    ELSE IF ~isAddress(form.recipientAddress) THEN "Invalid recipient address"
    ELSE IF Len(form.recipientName) > MaxNameLength
    THEN "Recipient name too long (max 100 characters)"
    ELSE ""

\* the checks handleIssueCertificate makes between checkNetwork and
\* hasIssuerRole: the message of the Error it throws, "" when it throws none
SubmissionFault(form, nft, registered) ==
    IF \/ form.recipientName = "" \/ form.recipientAddress = ""
       \/ form.certificateType = "" \/ form.issueDate = "" \/ form.institutionName = ""
    THEN "Missing required fields"
    ELSE IF ~isAddress(form.recipientAddress) THEN "Invalid recipient address"
    ELSE IF Len(form.recipientName) > MaxNameLength
    THEN "Recipient name too long (max 100 characters)"
    ELSE IF nft /\ ~registered THEN "Organization not registered. Please register first."
    ELSE ""

----------------------------------------------------------------------------
(* Thrown values and the catch block of handleIssueCertificate *)

\* new Error(message)
Error(message) == [isError |-> TRUE, message |-> message]

\* no value was thrown
NoError == [isError |-> FALSE, message |-> ""]

RoleMessage == "Wallet does not have ISSUER_ROLE. Contact admin to grant role."

\* what the collaborators (hasIssuerRole, uploadJSON, mintNFTCertificate,
\* issueCertificate) throw: Errors, and a value that is not an Error
Thrown ==
    {Error("user rejected action (code=ACTION_REJECTED)"),
     Error("insufficient funds for gas on network 43113"),
     Error("could not detect network"),
     Error("caller is not authorized"),
     Error("execution reverted: not registered on this network (code=CALL_EXCEPTION)"),
     Error("missing revert data (code=CALL_EXCEPTION)"),
     Error("request timed out"),
     [isError |-> FALSE, message |-> "4001"]}

\* one of them, for the runs in which the thrown value plays no part
TimedOut == {Error("request timed out")}

\* how an awaited call settles: it resolves to one of values, or throws
\* one of thrown
Outcomes(values, thrown) ==
    {[value |-> v, thrown |-> NoError] : v \in values}
        \cup {[value |-> "throw", thrown |-> e] : e \in thrown}

\* the substrings the catch block looks for
Tested == {"4001", "ACTION_REJECTED", "insufficient funds", "network", "not authorized",
           "ISSUER_ROLE", "not registered", "CALL_EXCEPTION"}

\* the ones of Tested that occur in a message
PartsOf(message) ==
    CASE message = "4001" -> {"4001"}
      [] message = "user rejected action (code=ACTION_REJECTED)" -> {"ACTION_REJECTED"}
      [] message = "insufficient funds for gas on network 43113"
            -> {"insufficient funds", "network"}
      [] message = "could not detect network" -> {"network"}
      [] message = "caller is not authorized" -> {"not authorized"}
      [] message = "execution reverted: not registered on this network (code=CALL_EXCEPTION)"
            -> {"network", "not registered", "CALL_EXCEPTION"}
      [] message = "missing revert data (code=CALL_EXCEPTION)" -> {"CALL_EXCEPTION"}
      [] message = RoleMessage -> {"ISSUER_ROLE"}
      [] message = "Organization not registered. Please register first." -> {"not registered"}
      [] OTHER -> {}

\* error.message.includes(part)
includes(message, part) == part \in PartsOf(message)

\* the description of the error toast: the chain of tests of the catch block
CatchMessage(error, nft) ==
    IF ~error.isError
    THEN IF nft THEN "Failed to mint NFT certificate" ELSE "Failed to issue certificate"
    ELSE IF includes(error.message, "4001") \/ includes(error.message, "ACTION_REJECTED")
    THEN "User rejected the transaction"
    ELSE IF includes(error.message, "insufficient funds")
    THEN "Insufficient AVAX for gas fees. Get test AVAX from faucet."
    ELSE IF includes(error.message, "network")
    THEN "Please ensure you're connected to the Avalanche Fuji Testnet"
    ELSE IF includes(error.message, "not authorized") \/ includes(error.message, "ISSUER_ROLE")
    THEN "Wallet not authorized to issue certificates. Contact admin."
    ELSE IF includes(error.message, "not registered")
    THEN "Organization not registered. Please register first."
    ELSE IF includes(error.message, "CALL_EXCEPTION")
    THEN "Transaction failed: Likely unauthorized issuer or invalid parameters."
    ELSE error.message

----------------------------------------------------------------------------
(* Certificates and the ledger *)

\* the record handleIssueCertificate builds from its form and the returned id
NewCertificate(id, form, nft) ==
    [id |-> id, isNFT |-> nft, recipientAddress |-> form.recipientAddress,
     issueDate |-> form.issueDate, transactionHash |-> ""]

\* the certificates of one contract
IssuedBy(nft) == {c \in ledger : c.isNFT = nft}

\* the identifier the contract assigns to its next certificate
NextId(nft) == ToString(Cardinality(IssuedBy(nft)) + 1)

\* certificateService.getCertificate(id, isNFT): the set of its results
\* (empty when the contract holds no such certificate: the call returns null)
getCertificate(id, nft) == {c \in ledger : c.id = id /\ c.isNFT = nft}

----------------------------------------------------------------------------
(* Submissions *)

Slots == 1..MaxInFlight

\* the collaborator calls a submission has made: the set of s.calls
Called(s) == {s.calls[k] : k \in 1..Len(s.calls)}

IdleSlot ==
    [pc |-> "idle", formData |-> InitialFormData, isNFT |-> FALSE, isRegistered |-> FALSE,
     uploadState |-> InitialUploadState, certificates |-> <<>>,
     enabled |-> FALSE, connected |-> FALSE, network |-> "", hasRole |-> "",
     calls |-> <<>>, trace |-> <<>>, certificateId |-> "", error |-> NoError,
     before |-> <<>>]

InFlight(s) == s.pc # "idle"

\* the slot a new invocation takes: the first one free
FreeSlot(i) == ~InFlight(sub[i]) /\ \A j \in Slots : j < i => InFlight(sub[j])

\* the values the handler's closure holds, and the start of its history
Started ==
    [pc |-> "checkNetwork", formData |-> formData, isNFT |-> isNFT,
     isRegistered |-> isRegistered, uploadState |-> uploadState,
     certificates |-> certificates,
     enabled |-> SubmitEnabled, connected |-> isConnected, network |-> "", hasRole |-> "",
     calls |-> <<>>, trace |-> <<"Idle", "Validating">>, certificateId |-> "",
     error |-> NoError, before |-> <<>>]

\* a step in which no submission finishes
Forgotten == last' = IdleSlot

\* toast({title, description})
Toast(title, description) == [title |-> title, description |-> description]

\* a step that raises no notification
Quiet == toasts' = <<>>

NetworkMessage == "Please connect to Avalanche Fuji Testnet"

\* the message of the error a failed point lookup throws
LookupMessage == "could not detect network"

\* a finished submission: its closure and its history, with the cached set
\* as it was when the handler took its last step
Finished(s, outcome) ==
    [s EXCEPT !.pc = "done", !.trace = Append(@, outcome), !.before = certificates]

----------------------------------------------------------------------------
(* The state after the first load of the page *)

IdleFetch == [pc |-> "idle", stored |-> <<>>, next |-> 0, found |-> <<>>]

\* what earlier sessions left behind: a certificate on the ledger, and the
\* list stored under "certificates" (empty in a browser that never issued)
StandardOne ==
    [id |-> "1", isNFT |-> FALSE, recipientAddress |-> RecipientA, issueDate |-> "2025-01-01",
     transactionHash |-> ""]

\* the record of it in the stored list, with the hash of its transaction
StoredOne == [StandardOne EXCEPT !.transactionHash = "0xabc"]

\* the stored record of a certificate the ledger does not hold
StoredGone ==
    [id |-> "9", isNFT |-> FALSE, recipientAddress |-> RecipientA, issueDate |-> "2025-01-03",
     transactionHash |-> "0x999"]

EarlierSessions ==
    {[stored |-> <<>>, ledger |-> {StandardOne}],
     [stored |-> <<StoredOne, StoredGone>>, ledger |-> {StandardOne}]}

Init ==
    /\ certificates = <<>>
    /\ isConnected = FALSE
    /\ isIssuing = FALSE
    /\ isNFT = FALSE
    /\ isRegistered = FALSE
    /\ uploadState = InitialUploadState
    /\ formData = InitialFormData
    /\ sub = [i \in Slots |-> IdleSlot]
    /\ fetch = IdleFetch
    /\ boot = "getConnectedAddress"
    /\ upload = "idle"
    /\ registering = FALSE
    /\ \E e \in EarlierSessions : localStorage = e.stored /\ ledger = e.ledger
    /\ last = IdleSlot
    /\ toasts = <<>>
    /\ scans = 0

----------------------------------------------------------------------------
(* initBlockchain, the mount effect *)

\* init() and getConnectedAddress() resolve: "address", "none" (no wallet), "throw"
BootConnected(result) ==
    /\ boot = "getConnectedAddress"
    /\ IF result = "address"
       THEN isConnected' = TRUE /\ boot' = "checkNetwork" /\ Quiet
       ELSE IF result = "none"
       THEN boot' = "done" /\ UNCHANGED isConnected /\ Quiet
       ELSE /\ isConnected' = FALSE /\ boot' = "done"
            /\ toasts' = <<Toast("Connection Error", "Failed to connect wallet")>>
    /\ UNCHANGED <<certificates, localStorage, isIssuing, isNFT, isRegistered, uploadState,
                   formData, sub, fetch, upload, registering, ledger>>
    /\ Forgotten
    /\ UNCHANGED scans

\* checkNetwork() resolves (ok) or throws
BootAfterCheckNetwork(ok) ==
    /\ boot = "checkNetwork"
    /\ IF ok
       THEN boot' = "isOrganizationRegistered" /\ UNCHANGED isConnected /\ Quiet
       ELSE /\ isConnected' = FALSE /\ boot' = "done"
            /\ toasts' = <<Toast("Connection Error", NetworkMessage)>>
    /\ UNCHANGED <<certificates, localStorage, isIssuing, isNFT, isRegistered, uploadState,
                   formData, sub, fetch, upload, registering, ledger>>
    /\ Forgotten
    /\ UNCHANGED scans

\* isOrganizationRegistered() resolves to "true" or "false", or throws;
\* on a result the effect starts fetchCertificates without awaiting it
BootAfterIsOrganizationRegistered(result) ==
    /\ boot = "isOrganizationRegistered"
    /\ boot' = "done"
    /\ IF result = "throw"
       THEN /\ isConnected' = FALSE /\ UNCHANGED <<isRegistered, fetch>>
            /\ toasts' = <<Toast("Connection Error", "Failed to connect wallet")>>
       ELSE /\ isRegistered' = (result = "true")
            /\ fetch' = [IdleFetch EXCEPT !.pc = "checkNetwork"]
            /\ UNCHANGED isConnected
            /\ toasts' = <<Toast("Connected", "Wallet connected")>>
    /\ UNCHANGED <<certificates, localStorage, isIssuing, isNFT, uploadState,
                   formData, sub, upload, registering, ledger>>
    /\ Forgotten
    /\ UNCHANGED scans

----------------------------------------------------------------------------
(* fetchCertificates *)

\* the end of the try block keeping the cached records the fetch did not find
FetchDoneMerging(found) ==
    LET kept(c) == \A k \in 1..Len(found) : found[k].id # c.id \/ found[k].isNFT # c.isNFT
        merged == found \o SelectSeq(certificates, kept)
    IN /\ certificates' = merged
       /\ localStorage' = merged
       /\ fetch' = [IdleFetch EXCEPT !.pc = "done"]
       /\ scans' = IF scans < MaxScans THEN scans + 1 ELSE scans
       /\ Quiet

\* the end of the try block adding what it found to the stored list
FetchDoneAppends(found) ==
    /\ certificates' = found
    /\ localStorage' = localStorage \o found
    /\ fetch' = [IdleFetch EXCEPT !.pc = "done"]
    /\ scans' = IF scans < MaxScans THEN scans + 1 ELSE scans
    /\ Quiet

\* the end of the try block: setCertificates and localStorage.setItem
FetchDone(found) ==
    /\ certificates' = found
    /\ localStorage' = found
    /\ fetch' = [IdleFetch EXCEPT !.pc = "done"]
    /\ scans' = IF scans < MaxScans THEN scans + 1 ELSE scans
    /\ Quiet

\* the catch block with the records found so far put into the cached set
\* and the stored list
FetchFailsKeepsPartial(message) ==
    /\ fetch' = [IdleFetch EXCEPT !.pc = "failed"]
    /\ toasts' = <<Toast("Error", message)>>
    /\ certificates' = fetch.found
    /\ localStorage' = fetch.found
    /\ UNCHANGED scans

\* the catch block of fetchCertificates: one error toast, nothing else
FetchFails(message) ==
    /\ fetch' = [IdleFetch EXCEPT !.pc = "failed"]
    /\ toasts' = <<Toast("Error", message)>>
    /\ UNCHANGED <<certificates, localStorage, scans>>

\* checkNetwork() resolves or throws; on success the stored list is read
FetchAfterCheckNetwork(ok) ==
    /\ fetch.pc = "checkNetwork"
    /\ IF ~ok
       THEN FetchFails(NetworkMessage)
       ELSE IF localStorage = <<>>
       THEN FetchDone(<<>>)
       ELSE /\ fetch' = [pc |-> "getCertificate", stored |-> localStorage, next |-> 1,
                         found |-> <<>>]
            /\ UNCHANGED <<certificates, localStorage, scans>>
            /\ Quiet
    /\ UNCHANGED <<isConnected, isIssuing, isNFT, isRegistered, uploadState, formData, sub,
                   boot, upload, registering, ledger>>
    /\ Forgotten

\* getCertificate(cert.id, cert.isNFT) resolves for the next stored record, or throws
FetchAfterGetCertificate(throws) ==
    /\ fetch.pc = "getCertificate"
    /\ LET cert == fetch.stored[fetch.next]
           got == getCertificate(cert.id, cert.isNFT)
           found == IF got = {} THEN fetch.found
                    ELSE Append(fetch.found,
                                [(CHOOSE c \in got : TRUE)
                                    EXCEPT !.transactionHash = cert.transactionHash])
       IN IF throws
          THEN FetchFails(LookupMessage)
          ELSE IF fetch.next < Len(fetch.stored)
          THEN /\ fetch' = [fetch EXCEPT !.next = @ + 1, !.found = found]
               /\ UNCHANGED <<certificates, localStorage, scans>>
               /\ Quiet
          ELSE FetchDone(found)
    /\ UNCHANGED <<isConnected, isIssuing, isNFT, isRegistered, uploadState, formData, sub,
                   boot, upload, registering, ledger>>
    /\ Forgotten

----------------------------------------------------------------------------
(* The inputs of the form *)

\* the logo and brand color inputs are rendered only while isNFT && !isRegistered
InputShown(field) ==
    field \in {"logoUrl", "brandColor"} => (isNFT /\ ~isRegistered)

handleInputChange(field, value) ==
    /\ InputShown(field)
    /\ formData' = [formData EXCEPT ![field] = value]
    /\ UNCHANGED <<certificates, localStorage, isConnected, isIssuing, isNFT, isRegistered,
                   uploadState, sub, fetch, boot, upload, registering, ledger>>
    /\ Forgotten
    /\ Quiet
    /\ UNCHANGED scans

\* the two certificate type buttons
setIsNFT(value) ==
    /\ isNFT' = value
    /\ UNCHANGED <<certificates, localStorage, isConnected, isIssuing, isRegistered,
                   uploadState, formData, sub, fetch, boot, upload, registering, ledger>>
    /\ Forgotten
    /\ Quiet
    /\ UNCHANGED scans

----------------------------------------------------------------------------
(* handleFileUpload *)

MaxFileSize == 5242880

AllowedTypes == {"application/pdf", "image/jpeg", "image/png", "image/jpg"}

Files ==
    {[type |-> "application/pdf", size |-> 1024],
     [type |-> "image/gif", size |-> 1024],
     [type |-> "image/png", size |-> MaxFileSize + 1]}

\* the handler without the check of the size of the file
handleFileUploadAnySize(file, configured) ==
    /\ ~uploadState.isUploading
    /\ upload = "idle"
    /\ IF file.type \notin AllowedTypes \/ ~configured
       THEN UNCHANGED <<uploadState, upload>>
       ELSE /\ uploadState' = [uploadState EXCEPT !.isUploading = TRUE]
            /\ upload' = "uploadFile"
    /\ UNCHANGED <<certificates, localStorage, isConnected, isIssuing, isNFT, isRegistered,
                   formData, sub, fetch, boot, registering, ledger>>
    /\ Forgotten
    /\ Quiet
    /\ UNCHANGED scans

\* a file is chosen (the input is disabled while an upload is in progress, and
\* the model follows one upload at a time);
\* a rejected file only raises a toast
handleFileUpload(file, configured) ==
    /\ ~uploadState.isUploading
    /\ upload = "idle"
    /\ IF file.type \notin AllowedTypes \/ file.size > MaxFileSize \/ ~configured
       THEN UNCHANGED <<uploadState, upload>>
       ELSE /\ uploadState' = [uploadState EXCEPT !.isUploading = TRUE]
            /\ upload' = "uploadFile"
    /\ UNCHANGED <<certificates, localStorage, isConnected, isIssuing, isNFT, isRegistered,
                   formData, sub, fetch, boot, registering, ledger>>
    /\ Forgotten
    /\ Quiet
    /\ UNCHANGED scans

\* uploadFile and uploadJSON resolve (ok), or one of them throws
UploadSettles(ok) ==
    /\ upload = "uploadFile"
    /\ upload' = "idle"
    /\ uploadState' =
          IF ok
          THEN [uploadState EXCEPT !.isUploading = FALSE, !.documentHash = "QmDoc",
                                   !.metadataHash = "QmMeta",
                                   !.documentUrl = "https://gateway/QmDoc"]
          ELSE [uploadState EXCEPT !.isUploading = FALSE]
    /\ UNCHANGED <<certificates, localStorage, isConnected, isIssuing, isNFT, isRegistered,
                   formData, sub, fetch, boot, registering, ledger>>
    /\ Forgotten
    /\ Quiet
    /\ UNCHANGED scans

----------------------------------------------------------------------------
(* handleRegisterOrganization *)

\* the Register Organization button, rendered while isNFT && !isRegistered
handleRegisterOrganization ==
    /\ isNFT /\ ~isRegistered
    /\ ~registering
    /\ registering' = (formData.logoUrl # "" /\ formData.brandColor # "")
    /\ UNCHANGED <<certificates, localStorage, isConnected, isIssuing, isNFT, isRegistered,
                   uploadState, formData, sub, fetch, boot, upload, ledger>>
    /\ Forgotten
    /\ Quiet
    /\ UNCHANGED scans

\* registerOrganization resolves (ok) or throws
RegisterSettles(ok) ==
    /\ registering
    /\ registering' = FALSE
    /\ isRegistered' = (isRegistered \/ ok)
    /\ UNCHANGED <<certificates, localStorage, isConnected, isIssuing, isNFT,
                   uploadState, formData, sub, fetch, boot, upload, ledger>>
    /\ Forgotten
    /\ Quiet
    /\ UNCHANGED scans

----------------------------------------------------------------------------
(* handleIssueCertificate *)

\* the catch block with one more try of a ledger mutation that threw
IssueFailsRetries(i, s, error) ==
    IF s.pc \in {"issueCertificate", "mintNFTCertificate"} /\ Len(s.calls) < 4
    THEN /\ sub' = [sub EXCEPT ![i] = [s EXCEPT !.calls = Append(@, s.pc)]]
         /\ Forgotten
         /\ Quiet
         /\ UNCHANGED <<certificates, localStorage, formData, uploadState, ledger, scans,
                        isIssuing>>
    ELSE /\ sub' = [sub EXCEPT ![i] = IdleSlot]
         /\ last' = Finished([s EXCEPT !.error = error], "Failed")
         /\ toasts' = <<Toast("Error", CatchMessage(error, s.isNFT))>>
         /\ isIssuing' = FALSE
         /\ UNCHANGED <<certificates, localStorage, formData, uploadState, ledger, scans>>

\* the catch block without the finally block: isIssuing stays as it is
IssueFailsKeepsIssuing(i, s, error) ==
    /\ sub' = [sub EXCEPT ![i] = IdleSlot]
    /\ last' = Finished([s EXCEPT !.error = error], "Failed")
    /\ toasts' = <<Toast("Error", CatchMessage(error, s.isNFT))>>
    /\ UNCHANGED isIssuing
    /\ UNCHANGED <<certificates, localStorage, formData, uploadState, ledger, scans>>

\* the catch block with the reset of the form that belongs to a success
IssueFailsResetsForm(i, s, error) ==
    /\ sub' = [sub EXCEPT ![i] = IdleSlot]
    /\ last' = Finished([s EXCEPT !.error = error], "Failed")
    /\ toasts' = <<Toast("Error", CatchMessage(error, s.isNFT))>>
    /\ isIssuing' = FALSE
    /\ formData' = InitialFormData
    /\ UNCHANGED <<certificates, localStorage, uploadState, ledger, scans>>

\* the catch block and the finally block: the toast of the classified error,
\* setIsIssuing(false)
IssueFails(i, s, error) ==
    /\ sub' = [sub EXCEPT ![i] = IdleSlot]
    /\ last' = Finished([s EXCEPT !.error = error], "Failed")
    /\ toasts' = <<Toast("Error", CatchMessage(error, s.isNFT))>>
    /\ isIssuing' = FALSE
    /\ UNCHANGED <<certificates, localStorage, formData, uploadState, ledger, scans>>

\* setIsIssuing(true), the pending toast, and the first call of the chosen path
IssueProceeds(i, s) ==
    /\ isIssuing' = TRUE
    /\ sub' = [sub EXCEPT ![i] =
                  IF s.isNFT
                  THEN [s EXCEPT !.pc = "uploadJSON", !.calls = Append(@, "uploadJSON"),
                                 !.trace = Append(@, "UploadingMetadata")]
                  ELSE [s EXCEPT !.pc = "issueCertificate",
                                 !.calls = Append(@, "issueCertificate"),
                                 !.trace = Append(@, "Submitting")]]
    /\ toasts' = <<Toast("Transaction Pending",
                         "Please confirm the transaction in your wallet")>>
    /\ UNCHANGED <<certificates, localStorage, formData, uploadState, ledger, scans>>
    /\ Forgotten

\* the form is submitted: without a wallet a toast and return, else checkNetwork
handleIssueCertificate(i) ==
    /\ FreeSlot(i)
    /\ IF ~isConnected
       THEN /\ last' = Finished(Started, "Failed")
            /\ toasts' = <<Toast("Connection Error", "Please connect your wallet first")>>
            /\ UNCHANGED sub
       ELSE /\ sub' = [sub EXCEPT ![i] = [Started EXCEPT !.calls = <<"getNetwork">>]]
            /\ Forgotten
            /\ Quiet
    /\ UNCHANGED <<certificates, localStorage, isConnected, isIssuing, isNFT, isRegistered,
                   uploadState, formData, fetch, boot, upload, registering, ledger, scans>>

\* checkNetwork() resolves (ok) or throws; then the checks of the form, and
\* on the standard path the query of the issuer role
IssueAfterCheckNetwork(i, ok) ==
    /\ sub[i].pc = "checkNetwork"
    /\ LET s == [sub[i] EXCEPT !.network = IF ok THEN "ok" ELSE "wrong"]
           fault == SubmissionFault(s.formData, s.isNFT, s.isRegistered)
       IN IF ~ok
          THEN IssueFails(i, s, Error(NetworkMessage))
          ELSE IF fault # ""
          THEN IssueFails(i, s, Error(fault))
          ELSE IF ~s.isNFT
          THEN /\ sub' = [sub EXCEPT ![i] = [s EXCEPT !.pc = "hasIssuerRole",
                                                      !.calls = Append(@, "hasIssuerRole")]]
               /\ UNCHANGED <<certificates, localStorage, formData, uploadState, ledger,
                              isIssuing, scans>>
               /\ Forgotten
               /\ Quiet
          ELSE IssueProceeds(i, s)
    /\ UNCHANGED <<isConnected, isNFT, isRegistered, fetch, boot, upload, registering>>

\* the query of the role with its answer ignored: only a throw stops the submission
IssueAfterHasIssuerRoleUngated(i, result) ==
    /\ sub[i].pc = "hasIssuerRole"
    /\ LET s == [sub[i] EXCEPT !.hasRole = result.value]
       IN IF result.value # "throw" THEN IssueProceeds(i, s)
          ELSE IssueFails(i, s, result.thrown)
    /\ UNCHANGED <<isConnected, isNFT, isRegistered, fetch, boot, upload, registering>>

\* hasIssuerRole() resolves to "true" or "false", or throws one of Thrown
IssueAfterHasIssuerRole(i, result) ==
    /\ sub[i].pc = "hasIssuerRole"
    /\ LET s == [sub[i] EXCEPT !.hasRole = result.value]
       IN IF result.value = "true" THEN IssueProceeds(i, s)
          ELSE IF result.value = "false" THEN IssueFails(i, s, Error(RoleMessage))
          ELSE IssueFails(i, s, result.thrown)
    /\ UNCHANGED <<isConnected, isNFT, isRegistered, fetch, boot, upload, registering>>

\* uploadJSON(metadata) resolves ("ok") or throws one of Thrown; then
\* mintNFTCertificate is called
IssueAfterUploadJSON(i, result) ==
    /\ sub[i].pc = "uploadJSON"
    /\ IF result.value = "ok"
       THEN /\ sub' = [sub EXCEPT ![i] = [@ EXCEPT !.pc = "mintNFTCertificate",
                                                   !.calls = Append(@, "mintNFTCertificate"),
                                                   !.trace = Append(@, "Submitting")]]
            /\ UNCHANGED <<certificates, localStorage, formData, uploadState, ledger,
                           isIssuing, scans>>
            /\ Forgotten
            /\ Quiet
       ELSE IssueFails(i, sub[i], result.thrown)
    /\ UNCHANGED <<isConnected, isNFT, isRegistered, fetch, boot, upload, registering>>

\* the success step with the record appended to the list of the closure
\* instead of the current one
IssueSucceedsStale(i, s, id) ==
    LET newCertificate == NewCertificate(id, s.formData, s.isNFT)
    IN /\ certificates' = Append(s.certificates, newCertificate)
       /\ localStorage' = Append(s.certificates, newCertificate)
       /\ formData' = InitialFormData
       /\ uploadState' = InitialUploadState
       /\ isIssuing' = FALSE
       /\ sub' = [sub EXCEPT ![i] = IdleSlot]
       /\ last' = Finished(s, "Succeeded")
       /\ toasts' = <<Toast(IF s.isNFT THEN "NFT Certificate Issued" ELSE "Certificate Issued",
                            "Certificate issued successfully")>>
       /\ scans' = 0

\* the success step without the reset of the upload state
IssueSucceedsKeepsUpload(i, s, id) ==
    LET newCertificate == NewCertificate(id, s.formData, s.isNFT)
    IN /\ certificates' = Append(certificates, newCertificate)
       /\ localStorage' = Append(s.certificates, newCertificate)
       /\ formData' = InitialFormData
       /\ UNCHANGED uploadState
       /\ isIssuing' = FALSE
       /\ sub' = [sub EXCEPT ![i] = IdleSlot]
       /\ last' = Finished(s, "Succeeded")
       /\ toasts' = <<Toast(IF s.isNFT THEN "NFT Certificate Issued" ELSE "Certificate Issued",
                            "Certificate issued successfully")>>
       /\ scans' = 0

\* a certificate id was returned: the record is appended and stored, the form
\* and the upload state are reset, and the finally block clears isIssuing
IssueSucceeds(i, s, id) ==
    LET newCertificate == NewCertificate(id, s.formData, s.isNFT)
    IN /\ certificates' = Append(certificates, newCertificate)
       /\ localStorage' = Append(s.certificates, newCertificate)
       /\ formData' = InitialFormData
       /\ uploadState' = InitialUploadState
       /\ isIssuing' = FALSE
       /\ sub' = [sub EXCEPT ![i] = IdleSlot]
       /\ last' = Finished(s, "Succeeded")
       /\ toasts' = <<Toast(IF s.isNFT THEN "NFT Certificate Issued" ELSE "Certificate Issued",
                            "Certificate issued successfully")>>
       /\ scans' = 0

\* issueCertificate / mintNFTCertificate resolves to a new id ("id"), to an
\* empty id ("empty"), or throws one of Thrown
IssueAfterMutation(i, result) ==
    /\ sub[i].pc \in {"issueCertificate", "mintNFTCertificate"}
    /\ result.value = "id" => Cardinality(ledger) < MaxLedger
    /\ LET id == IF result.value = "id" THEN NextId(sub[i].isNFT) ELSE ""
           s == [sub[i] EXCEPT !.certificateId = id]
       IN IF result.value = "throw"
          THEN IssueFails(i, s, result.thrown)
          ELSE IF id = ""
          THEN IssueFails(i, s, Error("Failed to retrieve certificate ID"))
          ELSE /\ IssueSucceeds(i, s, id)
               /\ ledger' = ledger \cup {NewCertificate(id, s.formData, s.isNFT)}
    /\ UNCHANGED <<isConnected, isNFT, isRegistered, fetch, boot, upload, registering>>

----------------------------------------------------------------------------
(* The system *)

Mount ==
    \/ \E r \in {"address", "none", "throw"} : BootConnected(r)
    \/ \E ok \in BOOLEAN : BootAfterCheckNetwork(ok)
    \/ \E r \in {"true", "false", "throw"} : BootAfterIsOrganizationRegistered(r)
    \/ \E ok \in BOOLEAN : FetchAfterCheckNetwork(ok)
    \/ \E throws \in BOOLEAN : FetchAfterGetCertificate(throws)

Documents ==
    \/ \E file \in Files : \E configured \in BOOLEAN : handleFileUpload(file, configured)
    \/ \E ok \in BOOLEAN : UploadSettles(ok)

Registration ==
    \/ handleRegisterOrganization
    \/ \E ok \in BOOLEAN : RegisterSettles(ok)

Issuance(slots, thrown) ==
    \/ \E i \in slots : \E ok \in BOOLEAN : IssueAfterCheckNetwork(i, ok)
    \/ \E i \in slots : \E r \in Outcomes({"true", "false"}, thrown) :
          IssueAfterHasIssuerRole(i, r)
    \/ \E i \in slots : \E r \in Outcomes({"ok"}, thrown) : IssueAfterUploadJSON(i, r)
    \/ \E i \in slots : \E r \in Outcomes({"id", "empty"}, thrown) :
          IssueAfterMutation(i, r)

\* the page, one submission at a time, submitted with the submit button
Next ==
    \/ Mount
    \/ \E f \in Fields : \E v \in FieldValues[f] :
          handleInputChange(f, v) /\ InScope(formData')
    \/ \E b \in BOOLEAN : setIsNFT(b)
    \/ Documents
    \/ Registration
    \/ SubmitEnabled /\ handleIssueCertificate(1)
    \/ Issuance({1}, TimedOut)

Spec == Init /\ [][Next]_vars

\* the handler invoked in any state of the form, one submission at a time
NextForms ==
    \/ Mount
    \/ \E f \in Fields : \E v \in FieldValues[f] :
          handleInputChange(f, v) /\ InWideScope(formData')
    \/ \E b \in BOOLEAN : setIsNFT(b)
    \/ handleIssueCertificate(1)
    \/ Issuance({1}, TimedOut)

SpecForms == Init /\ [][NextForms]_vars

\* submissions that overlap, each submitted with the submit button
NextRace ==
    \/ Mount
    \/ \E f \in Fields : \E v \in FieldValues[f] :
          handleInputChange(f, v) /\ InScope(formData')
    \/ \E b \in BOOLEAN : setIsNFT(b)
    \/ \E i \in Slots : SubmitEnabled /\ handleIssueCertificate(i)
    \/ Issuance(Slots, TimedOut)

SpecRace == Init /\ [][NextRace]_vars

\* the page without documents, its collaborators throwing any of Thrown
NextFaults ==
    \/ Mount
    \/ \E f \in Fields : \E v \in FieldValues[f] :
          handleInputChange(f, v) /\ InScope(formData')
    \/ \E b \in BOOLEAN : setIsNFT(b)
    \/ Registration
    \/ SubmitEnabled /\ handleIssueCertificate(1)
    \/ Issuance({1}, Thrown)

SpecFaults == Init /\ [][NextFaults]_vars

\* the page is loaded again: the component starts from its initial state,
\* handlers in flight are gone, the stored list and the ledger remain
Reload ==
    /\ certificates' = <<>>
    /\ isConnected' = FALSE
    /\ isIssuing' = FALSE
    /\ isNFT' = FALSE
    /\ isRegistered' = FALSE
    /\ uploadState' = InitialUploadState
    /\ formData' = InitialFormData
    /\ sub' = [i \in Slots |-> IdleSlot]
    /\ fetch' = IdleFetch
    /\ boot' = "getConnectedAddress"
    /\ upload' = "idle"
    /\ registering' = FALSE
    /\ UNCHANGED <<localStorage, ledger, scans>>
    /\ Forgotten
    /\ Quiet

\* a token of the NFT contract, and the record of it in the stored list
TokenOne ==
    [id |-> "1", isNFT |-> TRUE, recipientAddress |-> RecipientA, issueDate |-> "2025-01-02",
     transactionHash |-> ""]

StoredToken == [TokenOne EXCEPT !.transactionHash = "0xdef"]

\* the stored lists of up to two of these records
StoredLists ==
    LET records == {StoredOne, StoredToken, StoredGone}
    IN {<<>>} \cup {<<a>> : a \in records}
           \cup {<<a, b>> : <<a, b>> \in {pair \in records \X records : pair[1] # pair[2]}}

InitFetch ==
    /\ certificates = <<>>
    /\ isConnected = FALSE
    /\ isIssuing = FALSE
    /\ isNFT = FALSE
    /\ isRegistered = FALSE
    /\ uploadState = InitialUploadState
    /\ formData = InitialFormData
    /\ sub = [i \in Slots |-> IdleSlot]
    /\ fetch = IdleFetch
    /\ boot = "getConnectedAddress"
    /\ upload = "idle"
    /\ registering = FALSE
    /\ localStorage \in StoredLists
    /\ ledger = {StandardOne, TokenOne}
    /\ last = IdleSlot
    /\ toasts = <<>>
    /\ scans = 0

\* loading the page again and again against a ledger that does not change
NextFetch ==
    \/ Mount
    \/ Reload

SpecFetch == InitFetch /\ [][NextFetch]_vars

\* the states of the form the validator is asked about: a page that has
\* loaded with a wallet, and any values in the inputs
ValidatorValues ==
    [recipientName |-> {"", "Ann", Name100, LongName},
     recipientAddress |-> {"", "0x123", RecipientA},
     certificateType |-> {"", "BSc"},
     issueDate |-> {"", "2025-01-01", "2025-01-02", "soon"},
     expirationDate |-> {"", "2025-01-01", "2025-01-02", "2025-01-03", "soon"},
     additionalDetails |-> {""},
     institutionName |-> {"", "AvaU"},
     logoUrl |-> {"", "https://logo"},
     brandColor |-> {"", "#FFFFFF"}]

InitValid ==
    /\ formData \in [recipientName : ValidatorValues.recipientName,
                      recipientAddress : ValidatorValues.recipientAddress,
                      certificateType : ValidatorValues.certificateType,
                      issueDate : ValidatorValues.issueDate,
                      expirationDate : ValidatorValues.expirationDate,
                      additionalDetails : ValidatorValues.additionalDetails,
                      institutionName : ValidatorValues.institutionName,
                      logoUrl : ValidatorValues.logoUrl,
                      brandColor : ValidatorValues.brandColor]
    /\ isNFT \in BOOLEAN
    /\ isRegistered \in BOOLEAN
    /\ \E uploading \in BOOLEAN :
          /\ uploadState = [InitialUploadState EXCEPT !.isUploading = uploading]
          /\ upload = IF uploading THEN "uploadFile" ELSE "idle"
    /\ certificates = <<>>
    /\ localStorage = <<>>
    /\ ledger = {StandardOne}
    /\ isConnected = TRUE
    /\ isIssuing = FALSE
    /\ sub = [i \in Slots |-> IdleSlot]
    /\ fetch = [IdleFetch EXCEPT !.pc = "done"]
    /\ boot = "done"
    /\ registering = FALSE
    /\ last = IdleSlot
    /\ toasts = <<>>
    /\ scans = 1

NextValid ==
    \/ SubmitEnabled /\ handleIssueCertificate(1)
    \/ Issuance({1}, TimedOut)

SpecValid == InitValid /\ [][NextValid]_vars

\* submissions of any of these forms that overlap, every awaited call of
\* which settles in the end
NextLive ==
    \/ \E i \in Slots : SubmitEnabled /\ handleIssueCertificate(i)
    \/ Issuance(Slots, TimedOut)

SpecLive ==
    InitValid /\ [][NextLive]_vars /\ \A i \in Slots : WF_vars(Issuance({i}, TimedOut))

\* what a user who wants to issue an NFT certificate types into the inputs
Wanted == [FilledForm EXCEPT !.logoUrl = "https://logo"]

\* the user types it into an input the form shows that does not hold it yet
FillIn(field) ==
    /\ formData[field] # Wanted[field]
    /\ handleInputChange(field, Wanted[field])

\* the user presses the NFT Certificate button
ChooseNFT == ~isNFT /\ setIsNFT(TRUE)

\* the page used by someone who wants to issue an NFT certificate: they
\* choose NFT and fill in every input the form offers, and keep doing so
NextUser ==
    \/ Mount
    \/ \E f \in Fields : FillIn(f)
    \/ ChooseNFT
    \/ Registration
    \/ SubmitEnabled /\ handleIssueCertificate(1)
    \/ Issuance({1}, TimedOut)

SpecUser ==
    Init /\ [][NextUser]_vars /\ WF_vars(ChooseNFT) /\ \A f \in Fields : WF_vars(FillIn(f))

----------------------------------------------------------------------------
(* Vocabulary of the properties *)

\* the submissions in flight, and the one that has just finished
Submissions ==
    {sub[i] : i \in {j \in Slots : InFlight(sub[j])}}
        \cup (IF last.pc = "done" THEN {last} ELSE {})

JustSucceeded == last.pc = "done" /\ last.trace[Len(last.trace)] = "Succeeded"

JustFailed == last.pc = "done" /\ last.trace[Len(last.trace)] = "Failed"

LedgerMutations == {"issueCertificate", "mintNFTCertificate"}

NoDuplicateId(list) ==
    \A i, j \in 1..Len(list) : i # j => list[i].id # list[j].id

----------------------------------------------------------------------------
(* The properties *)

\* C1: a standard submission with the wallet connected, the network check
\* passed, the issuer role held and a certificate id returned went
\* Idle, Validating, Submitting, Succeeded, and the cached set is the one
\* before its last step with one record appended: isNFT false, the returned id.
C1_StandardIssuance ==
    (/\ last.pc = "done" /\ last.connected /\ last.network = "ok" /\ ~last.isNFT
     /\ last.hasRole = "true" /\ last.certificateId # "")
    => /\ last.trace = <<"Idle", "Validating", "Submitting", "Succeeded">>
       /\ Len(certificates) = Len(last.before) + 1
       /\ SubSeq(certificates, 1, Len(last.before)) = last.before
       /\ certificates[Len(certificates)].isNFT = FALSE
       /\ certificates[Len(certificates)].id = last.certificateId

C1_Witness ==
    /\ last.pc = "done" /\ last.connected /\ last.network = "ok" /\ ~last.isNFT
    /\ last.hasRole = "true" /\ last.certificateId # ""
    /\ last.enabled
    /\ last.before # <<>>

\* the cases of C2: no wallet, wrong network, a mandatory field empty, an
\* invalid address, a name longer than 100 characters, NFT without registration
PreconditionFails(s) ==
    \/ ~s.connected
    \/ s.network = "wrong"
    \/ \E f \in {"recipientName", "recipientAddress", "certificateType", "issueDate",
                 "institutionName"} : s.formData[f] = ""
    \/ ~isAddress(s.formData.recipientAddress)
    \/ Len(s.formData.recipientName) > 100
    \/ (s.isNFT /\ ~s.isRegistered)

\* C2: a submission in one of these cases calls none of uploadJSON,
\* mintNFTCertificate, issueCertificate, and ends Failed with the cached set
\* as it was.
C2_NoMutationOnFailedPrecondition ==
    /\ \A s \in Submissions :
          PreconditionFails(s) => Called(s) \cap (LedgerMutations \cup {"uploadJSON"}) = {}
    /\ (last.pc = "done" /\ PreconditionFails(last))
          => JustFailed /\ certificates = last.before

C2_Witness ==
    /\ last.pc = "done" /\ last.connected /\ last.network = "ok"
    /\ Len(last.formData.recipientName) > 100
    /\ last.before # <<>>

\* C3: a submission started where isFormValid() is false never calls the
\* ledger mutation and ends Failed.
C3_SubmitRunsAllChecks ==
    \A s \in Submissions :
        ~isFormValid(s.formData, s.uploadState, s.isNFT, s.isRegistered)
        => /\ Called(s) \cap LedgerMutations = {}
           /\ s.pc = "done" => s.trace[Len(s.trace)] = "Failed"

\* C4: issueCertificate is called only after hasIssuerRole was queried and
\* returned true in the same submission; when it returns false the submission
\* ends Failed without a ledger mutation; the NFT path does not query the role.
C4_IssuerGate ==
    \A s \in Submissions :
        /\ "issueCertificate" \in Called(s)
              => "hasIssuerRole" \in Called(s) /\ s.hasRole = "true"
        /\ s.hasRole = "false"
              => /\ s.pc = "done" /\ s.trace[Len(s.trace)] = "Failed"
                 /\ Called(s) \cap LedgerMutations = {}
                 /\ certificates = s.before
        /\ s.isNFT => "hasIssuerRole" \notin Called(s) /\ s.hasRole = ""

C4_Witness ==
    /\ JustSucceeded /\ "issueCertificate" \in Called(last) /\ last.hasRole = "true"

\* C5 as stated: an NFT submission of an unregistered organization makes no
\* network call at all.
C5_NoNetworkCall ==
    \A s \in Submissions : (s.isNFT /\ ~s.isRegistered) => s.calls = <<>>

\* C5: an NFT submission of an unregistered organization calls nothing but
\* the network identity query getNetwork (no uploadJSON, no ledger call) and
\* ends Failed while still validating.
C5_UnregisteredNFT ==
    \A s \in Submissions :
        (s.isNFT /\ ~s.isRegistered)
        => /\ Called(s) \subseteq {"getNetwork"}
           /\ s.pc = "done" => s.trace = <<"Idle", "Validating", "Failed">>

C5_Witness ==
    /\ last.pc = "done" /\ last.isNFT /\ ~last.isRegistered
    /\ last.connected /\ last.network = "ok"
    /\ SubmissionFault(last.formData, FALSE, FALSE) = ""

\* C6: at most one invocation of handleIssueCertificate is in flight.
C6_OneSubmissionInFlight ==
    Cardinality({i \in Slots : InFlight(sub[i])}) <= 1

\* C7: a submission succeeds only with a non-empty id returned by the ledger
\* mutation; then the new record is appended to the cached set, the form is
\* reset to its initial values and the upload state is reset; without an id
\* the submission fails and appends nothing.
C7_SuccessEffects ==
    /\ JustSucceeded
          => /\ last.certificateId # ""
             /\ Called(last) \cap LedgerMutations # {}
             /\ certificates
                   = Append(last.before,
                            NewCertificate(last.certificateId, last.formData, last.isNFT))
             /\ formData = InitialFormData
             /\ uploadState = InitialUploadState
    /\ (last.pc = "done" /\ last.certificateId = "")
          => JustFailed /\ certificates = last.before

C7_Witness ==
    /\ JustSucceeded
    /\ last.uploadState.documentHash # ""
    /\ upload = "uploadFile"

\* C8: after a successful issuance, and after a completed fetch, the list
\* stored under "certificates" is the cached set.
C8_MirrorIsCache ==
    /\ [](JustSucceeded => localStorage = certificates)
    /\ [][(fetch.pc # "done" /\ fetch'.pc = "done") => localStorage' = certificates']_vars

\* C9: no two records of the cached set share an id, nor two of the stored list.
C9_UniqueIds == NoDuplicateId(certificates) /\ NoDuplicateId(localStorage)

\* C10: no record of the cached set has the all-zero recipient address.
C10_NoSentinel ==
    \A k \in 1..Len(certificates) : certificates[k].recipientAddress # ZeroAddress

\* the conditions of C11 on a form, an upload state, the choice of NFT and
\* the registration
FormConditions(form, upl, nft, registered) ==
    /\ form.recipientName # "" /\ form.recipientAddress # "" /\ form.certificateType # ""
    /\ form.issueDate # "" /\ form.institutionName # ""
    /\ Len(form.recipientName) <= 100
    /\ isAddress(form.recipientAddress)
    /\ ~upl.isUploading
    /\ form.expirationDate # ""
          => /\ form.issueDate \in DateStrings
             /\ form.expirationDate \in DateStrings
             /\ getTime(form.expirationDate) > getTime(form.issueDate)
    /\ nft => registered /\ form.logoUrl # "" /\ form.brandColor # ""

\* C11: isFormValid() is true exactly when the mandatory fields are filled,
\* the name has at most 100 characters, the address is well formed, no upload
\* is in progress, a supplied expiration date parses and is strictly later
\* than the parsed issue date, and an NFT has a registered organization with
\* logo URL and brand color; the submit control lets a submission start
\* only then.
C11_ValidatorVerdict ==
    /\ isFormValid(formData, uploadState, isNFT, isRegistered)
          = FormConditions(formData, uploadState, isNFT, isRegistered)
    /\ \A s \in Submissions :
          FormConditions(s.formData, s.uploadState, s.isNFT, s.isRegistered)

C11_Witness ==
    /\ last.pc = "done" /\ last.enabled
    /\ last.formData.issueDate = "2025-01-01"
    /\ last.formData.expirationDate = "2025-01-02"
    /\ Len(last.formData.recipientName) = 100

\* the categories of C12 in their priority order, each with the substrings
\* that select it and the text shown for it
Priority ==
    <<[category |-> "user-rejected", patterns |-> {"4001", "ACTION_REJECTED"},
       copy |-> "User rejected the transaction"],
      [category |-> "insufficient-funds", patterns |-> {"insufficient funds"},
       copy |-> "Insufficient AVAX for gas fees. Get test AVAX from faucet."],
      [category |-> "wrong-network", patterns |-> {"network"},
       copy |-> "Please ensure you're connected to the Avalanche Fuji Testnet"],
      [category |-> "unauthorized", patterns |-> {"not authorized", "ISSUER_ROLE"},
       copy |-> "Wallet not authorized to issue certificates. Contact admin."],
      [category |-> "not-registered", patterns |-> {"not registered"},
       copy |-> "Organization not registered. Please register first."],
      [category |-> "contract-call-failed", patterns |-> {"CALL_EXCEPTION"},
       copy |-> "Transaction failed: Likely unauthorized issuer or invalid parameters."]>>

\* the substring the spec calls generic
Generic == {"network"}

\* the categories a message matches
Matching(message) ==
    {k \in 1..Len(Priority) : Priority[k].patterns \cap PartsOf(message) # {}}

FirstMatching(message) ==
    CHOOSE k \in Matching(message) : \A j \in Matching(message) : k <= j

\* the text C12 expects for a caught value
ExpectedCopy(error, nft) ==
    IF ~error.isError
    THEN IF nft THEN "Failed to mint NFT certificate" ELSE "Failed to issue certificate"
    ELSE IF Matching(error.message) = {} THEN error.message
    ELSE Priority[FirstMatching(error.message)].copy

\* a category selected by a generic substring alone, while the message also
\* holds the substring of a category tested later
Shadowed(message) ==
    /\ Matching(message) # {}
    /\ Priority[FirstMatching(message)].patterns \cap PartsOf(message) \subseteq Generic
    /\ \E k \in Matching(message) : k > FirstMatching(message)

\* C12: the toast of a failed submission shows the text of the first category,
\* in the priority order, whose substring the caught message contains (the
\* message itself when none does), and no category is shadowed by a generic
\* substring tested before it.
C12_Classification ==
    (JustFailed /\ last.connected)
    => /\ Len(toasts) = 1
       /\ toasts[1].description = ExpectedCopy(last.error, last.isNFT)
       /\ last.error.isError => ~Shadowed(last.error.message)

\* C12 without the clause on shadowing.
C12_PriorityOrder ==
    (JustFailed /\ last.connected)
    => /\ Len(toasts) = 1
       /\ toasts[1].description = ExpectedCopy(last.error, last.isNFT)

C12_Witness ==
    /\ JustFailed /\ last.connected
    /\ PartsOf(last.error.message) = {"insufficient funds", "network"}
    /\ toasts[1].description = "Insufficient AVAX for gas fees. Get test AVAX from faucet."

\* the records of a list
Records(list) == {list[k] : k \in 1..Len(list)}

\* C13: a point lookup that throws does not end the fetch: the fetch goes on
\* with the next stored record, and when it completes every stored record
\* the ledger holds is in the cached set.
C13_LookupFaultSkipped ==
    /\ [][~(fetch.pc = "getCertificate" /\ fetch'.pc = "failed")]_vars
    /\ [][(fetch.pc = "getCertificate" /\ fetch'.pc = "done")
            => \A c \in Records(fetch.stored) :
                  getCertificate(c.id, c.isNFT) # {}
                  => \E d \in Records(certificates') : d.id = c.id /\ d.isNFT = c.isNFT]_vars

\* C14: a failed network check at the start of fetchCertificates does not
\* end the fetch: the lookups are made and the cached set is updated.
C14_FetchWithoutNetwork ==
    [][~(fetch.pc = "checkNetwork" /\ fetch'.pc = "failed")]_vars

\* C15: a fetch that fails writes nothing: no step of a fetch but its
\* completion changes the cached set or the stored list, and the step in
\* which it fails raises exactly one notification, an error.
C15_WholeFetchFault ==
    /\ [][(fetch.pc \in {"checkNetwork", "getCertificate"} /\ fetch' # fetch
              /\ fetch'.pc \in {"getCertificate", "failed"})
            => certificates' = certificates /\ localStorage' = localStorage]_vars
    /\ [][(fetch.pc # "failed" /\ fetch'.pc = "failed")
            => Len(toasts') = 1 /\ toasts'[1].title = "Error"]_vars

C15_Witness ==
    /\ fetch.pc = "failed"
    /\ toasts = <<Toast("Error", LookupMessage)>>
    /\ localStorage = <<StoredOne, StoredToken>>
    /\ certificates = <<>>

\* C16: when every awaited call settles, every submission in flight ends;
\* a submission that ends has Succeeded or Failed and raised the notification
\* of that outcome; and isIssuing is false whenever no submission is in flight.
C16_ReturnsToReady ==
    /\ \A i \in Slots : InFlight(sub[i]) ~> ~InFlight(sub[i])
    /\ [](last.pc = "done"
            => /\ JustSucceeded \/ JustFailed
               /\ Len(toasts) = 1
               /\ JustSucceeded
                     => toasts[1].title \in {"Certificate Issued", "NFT Certificate Issued"}
               /\ JustFailed => toasts[1].title \in {"Error", "Connection Error"})
    /\ []((\A i \in Slots : ~InFlight(sub[i])) => ~isIssuing)

C16_Witness ==
    /\ JustFailed
    /\ "issueCertificate" \in Called(last)
    /\ toasts[1].title = "Error"
    /\ ~isIssuing
    /\ \A i \in Slots : ~InFlight(sub[i])

\* how many times a submission has called one of a set of collaborators
TimesCalled(s, names) == Cardinality({k \in 1..Len(s.calls) : s.calls[k] \in names})

\* C17: a submission calls the ledger mutation at most once and uploadJSON at
\* most once; an invocation starts only from the submit control, at its
\* beginning; a fetch looks each stored record up once, in order, and a fetch
\* that failed or completed does not run again before the page is loaded anew.
C17_NoAutomaticRetry ==
    /\ [](\A s \in Submissions :
            /\ TimesCalled(s, LedgerMutations) <= 1
            /\ TimesCalled(s, {"uploadJSON"}) <= 1)
    /\ [][\A i \in Slots :
            (~InFlight(sub[i]) /\ InFlight(sub'[i]))
            => SubmitEnabled /\ sub'[i].calls = <<"getNetwork">>]_vars
    /\ [][(fetch.pc = "getCertificate" /\ fetch'.pc = "getCertificate" /\ fetch' # fetch)
            => fetch'.next = fetch.next + 1 /\ fetch'.stored = fetch.stored]_vars
    /\ [][fetch.pc \in {"failed", "done"} => fetch' \in {fetch, IdleFetch}]_vars

C17_Witness ==
    /\ JustFailed
    /\ last.calls = <<"getNetwork", "uploadJSON", "mintNFTCertificate">>
    /\ fetch.pc = "failed"

\* a list holds a record with the id of c in the contract of c
Holds(list, c) == \E d \in Records(list) : d.id = c.id /\ d.isNFT = c.isNFT

\* the stored list a fetch that completes in this step has read
StoredRead == IF fetch.pc = "getCertificate" THEN fetch.stored ELSE localStorage

\* C18: a successful issuance does not stop a fetch in flight, and the fetch
\* that completes writes its own result: the cached set and the stored list
\* become the records found for the stored list it read, and nothing else.
C18_NoCancellation ==
    /\ [][last'.pc = "done" => fetch' = fetch]_vars
    /\ [][(fetch.pc \in {"checkNetwork", "getCertificate"} /\ fetch'.pc = "done")
            => /\ localStorage' = certificates'
               /\ \A d \in Records(certificates') : Holds(StoredRead, d)]_vars

\* the fetch completed after an issuance, and the certificate issued is on
\* the ledger but not in the cached set
C18_Witness ==
    /\ fetch.pc = "done" /\ scans = 1
    /\ \E c \in ledger \ {StandardOne} : ~Holds(certificates, c) /\ ~Holds(localStorage, c)

\* C19: a record leaves the cached set only in the step that completes a
\* fetch which looked its id up and found nothing; a record the fetch found
\* is replaced by the looked-up record with the stored transactionHash; no
\* other step removes or alters a record.
C19_RecordLifecycle ==
    [][\A r \in Records(certificates) :
          \/ r \in Records(certificates')
          \/ /\ fetch.pc = "getCertificate" /\ fetch'.pc = "done"
             /\ \E c \in Records(fetch.stored) :
                   /\ c.id = r.id /\ c.isNFT = r.isNFT
                   /\ IF getCertificate(c.id, c.isNFT) = {}
                      THEN ~Holds(certificates', r)
                      ELSE \E g \in getCertificate(c.id, c.isNFT) :
                              [g EXCEPT !.transactionHash = c.transactionHash]
                                  \in Records(certificates')]_vars

\* C20: with the ledger fixed and no issuance in between, a second run of
\* fetchCertificates leaves the cached set and the stored list exactly as
\* the first run left them.
C20_IdempotentRediscovery ==
    [][(scans >= 1 /\ fetch.pc # "done" /\ fetch'.pc = "done")
          => /\ certificates' = localStorage
             /\ localStorage' = localStorage]_vars

\* a second run has completed and the cached set holds a record
C20_Witness ==
    /\ scans = MaxScans /\ fetch.pc = "done"
    /\ certificates # <<>> /\ certificates = localStorage

\* later issue dates first: of two records with distinct issue dates the one
\* with the later date stands before the other
LaterFirst(list) ==
    \A i, j \in 1..Len(list) :
        (i < j /\ getTime(list[i].issueDate) # getTime(list[j].issueDate))
        => getTime(list[i].issueDate) > getTime(list[j].issueDate)

\* C21: after a completed fetch and after a successful issuance the cached
\* set is ordered by issue date, later dates first.
C21_SortedByIssueDate ==
    (JustSucceeded \/ fetch.pc = "done") => LaterFirst(certificates)

\* C22: with the wallet connected and the organization registered, the inputs
\* the form offers lead to a form that isFormValid() accepts for an NFT
\* certificate: a user who chooses NFT and fills in every input offered gets
\* the submit control enabled in the end.
C22_NFTStaysReachable ==
    (isConnected /\ isRegistered)
        ~> (isNFT /\ isFormValid(formData, uploadState, isNFT, isRegistered))

\* an NFT certificate was issued, the form was filled in again and NFT is
\* chosen, and the form is not valid
C22_Witness ==
    /\ isConnected /\ isRegistered /\ isNFT /\ ~isIssuing
    /\ formData = FilledForm
    /\ \E c \in ledger : c.isNFT
    /\ ~isFormValid(formData, uploadState, isNFT, isRegistered)

\* once the page has loaded, the organization is registered and the logo URL
\* is empty, it stays empty: no input offered changes it
C22_LogoStaysEmpty ==
    [][(boot = "done" /\ isRegistered /\ formData.logoUrl = "")
          => (isRegistered' /\ formData'.logoUrl = "")]_vars

\* a submission past its checks and before its finally block: it awaits
\* uploadJSON or the ledger mutation
Mutating(s) == s.pc \in {"uploadJSON", "issueCertificate", "mintNFTCertificate"}

\* C23: while a submission awaits uploadJSON or the ledger mutation isIssuing
\* is true, and isIssuing is false when no submission is in flight.
C23_IssuingFlagTracks ==
    /\ (\E i \in Slots : Mutating(sub[i])) => isIssuing
    /\ (\A i \in Slots : ~InFlight(sub[i])) => ~isIssuing

\* what C24 says a failed submission leaves alone
EnteredUnchanged ==
    /\ formData' = formData /\ uploadState' = uploadState
    /\ isNFT' = isNFT /\ isRegistered' = isRegistered
    /\ certificates' = certificates /\ localStorage' = localStorage

\* C24: the step in which a submission ends Failed leaves the form, the
\* upload state, isNFT, isRegistered, the cached set and the stored list as
\* they were, raises one notification and, past the wallet check, leaves
\* isIssuing false; no earlier step of a submission changes any of them.
C24_FailureFrame ==
    /\ [][(last'.pc = "done" /\ last'.trace[Len(last'.trace)] = "Failed")
            => /\ EnteredUnchanged
               /\ Len(toasts') = 1
               /\ toasts'[1].title \in {"Error", "Connection Error"}
               /\ last'.connected => ~isIssuing'
               /\ ~last'.connected => isIssuing' = isIssuing]_vars
    /\ [][(sub' # sub /\ last'.pc # "done") => EnteredUnchanged]_vars

\* a submission has failed on the name of the recipient after the network
\* check, and the form still holds what was submitted
C24_Witness ==
    /\ JustFailed /\ last.connected /\ last.network = "ok"
    /\ Len(last.formData.recipientName) > 100
    /\ formData = last.formData
    /\ certificates # <<>>
    /\ toasts = <<Toast("Error", "Recipient name too long (max 100 characters)")>>
    /\ ~isIssuing

\* a file that is not a PDF, JPEG or PNG, or is larger than 5 MB
Rejected(file) == file.type \notin AllowedTypes \/ file.size > MaxFileSize

\* the three values an upload produces
Hashes(upl) == <<upl.documentHash, upl.metadataHash, upl.documentUrl>>

\* C25: isUploading is true only while an accepted file is being uploaded;
\* handleFileUpload starts no upload for a rejected file and leaves the upload
\* state as it was; when the upload settles isUploading is false, the three
\* values are set on success and unchanged on failure; and while isUploading
\* is true isFormValid() is false.
C25_UploadFlagDiscipline ==
    /\ [](uploadState.isUploading => upload = "uploadFile")
    /\ [][\A file \in Files : \A configured \in BOOLEAN :
            handleFileUpload(file, configured)
            => /\ uploadState'.isUploading => ~Rejected(file)
               /\ Rejected(file) => upload' = "idle" /\ uploadState' = uploadState]_vars
    /\ [][(upload = "uploadFile" /\ upload' = "idle")
            => /\ ~uploadState'.isUploading
               /\ \/ Hashes(uploadState') = Hashes(uploadState)
                  \/ \A k \in 1..3 : Hashes(uploadState')[k] # ""]_vars
    /\ [][\A ok \in BOOLEAN :
            (UploadSettles(ok) /\ ~ok) => Hashes(uploadState') = Hashes(uploadState)]_vars
    /\ [](uploadState.isUploading
            => ~isFormValid(formData, uploadState, isNFT, isRegistered))

\* a second file is being uploaded after a first upload succeeded, and the
\* upload is all that keeps the form from being valid
C25_Witness ==
    /\ uploadState.isUploading /\ upload = "uploadFile"
    /\ uploadState.documentHash = "QmDoc"
    /\ isFormValid(formData, [uploadState EXCEPT !.isUploading = FALSE], isNFT, isRegistered)

====
